---------------------------- MODULE Spec2Model ----------------------------
(***************************************************************************)
(* A model of the PDF-to-Markdown RAG service (src/app.py):                *)
(*   - PDFToMarkdownRAG.chunk_text, as a loop machine (SpecChunk);         *)
(*   - the upload_pdf request handler with add_document_to_store, the      *)
(*     Document Registry (document_store) and the vector store (Spec);     *)
(*   - query_documents over the vector store (SpecQuery);                  *)
(*   - add_document_to_store called on its own (SpecAdd);                  *)
(*   - the service across process restarts, with list_documents            *)
(*     (SpecRestart).                                                      *)
(* Text is a sequence of one-character strings; Python's 0-based,          *)
(* half-open slices are translated to 1-based SubSeq.                      *)
(***************************************************************************)
EXTENDS Integers, Sequences, FiniteSets, TLC

\* ------------------------------------------------------------------- state
\* chunk_text: its arguments, its locals start and chunks, where it is (cpc),
\* what it returned, and the (start, end) of every iteration so far.
VARIABLES text, chunk_size, overlap, start, chunks, cpc, result, windows

chunk_vars == <<text, chunk_size, overlap, start, chunks, cpc, result, windows>>

\* The service: the Document Registry, the vector store's records in insertion
\* order, the temporary files on disk, the number of uuid4() calls so far, each
\* upload request's position and locals, and the last query_documents call.
VARIABLES document_store, collection, temp_files, uuid_count, up, last_query

sys_vars == <<document_store, collection, temp_files, uuid_count, up, last_query>>

vars == <<chunk_vars, sys_vars>>

\* ------------------------------------------------------------------ bounds
MaxLen == 6        \* longest enumerated text handed to chunk_text
MaxChunk == 5      \* largest enumerated chunk_size
MaxOverlap == 5    \* largest enumerated overlap
MaxIter == 10      \* cap on loop iterations followed (the loop itself has none)
WrapLen == 10      \* length of the texts of the wide-overlap input family
SlideLen == 13     \* length of the texts of the small-step input family

\* -------------------------------------------------------- program constants
DEFAULT_CHUNK_SIZE == 1000
DEFAULT_OVERLAP == 200

\* --------------------------------------------------------- Python helpers
Max2(a, b) == IF a >= b THEN a ELSE b

\* str.strip() with no argument removes whitespace at both ends.
IsSpace(c) == c \in {" ", "\n", "\t"}

\* A slice bound as Python normalises it for a string of length n.
Clamp(i, n) == IF i < 0 THEN (IF i + n < 0 THEN 0 ELSE i + n)
               ELSE IF i > n THEN n ELSE i

\* The 1-based positions of s that s[a:b] takes.
SlicePos(n, a, b) == (Clamp(a, n) + 1) .. Clamp(b, n)

\* s[a:b]
Slice(s, a, b) == SubSeq(s, Clamp(a, Len(s)) + 1, Clamp(b, Len(s)))

\* s.rfind(c): the highest 0-based index of c in s, or -1.
\* The highest 0-based index of c among s[lo..hi] (1-based), or -1; the upper
\* half is searched first.
RECURSIVE RFindIn(_, _, _, _)
RFindIn(s, c, lo, hi) ==
    IF lo > hi THEN -1
    ELSE IF lo = hi THEN (IF s[lo] = c THEN lo - 1 ELSE -1)
    ELSE LET mid == (lo + hi) \div 2
             upper == RFindIn(s, c, mid + 1, hi)
         IN  IF upper # -1 THEN upper ELSE RFindIn(s, c, lo, mid)

rfind(s, c) == RFindIn(s, c, 1, Len(s))

\* s.strip()
RECURSIVE LStrip(_, _)
LStrip(s, i) == IF i > Len(s) \/ ~IsSpace(s[i]) THEN i ELSE LStrip(s, i + 1)

RECURSIVE RStrip(_, _)
RStrip(s, j) == IF j < 1 \/ ~IsSpace(s[j]) THEN j ELSE RStrip(s, j - 1)

Strip(s) == SubSeq(s, LStrip(s, 1), RStrip(s, Len(s)))

\* [c for c in chunks if c]
NonEmpty(cs) == SelectSeq(cs, LAMBDA c : c # << >>)

\* ------------------------------------------------------------- chunk_text
\* start = end - overlap
NextStart_SignSlip(end, ov) == end + ov

NextStart(end, ov) == end - ov

\* One pass through the body of the while loop: the chunk appended, the end
\* chosen and the next value of start.
LoopBody_NoMidpoint(t, size, ov, st) ==
    LET end0 == st + size
        chunk0 == Slice(t, st, end0)
        break_point == Max2(rfind(chunk0, "."), rfind(chunk0, "\n"))
        cut == end0 < Len(t) /\ break_point >= 0
        chunk == IF cut THEN Slice(t, st, break_point + 1) ELSE chunk0
        end == IF cut THEN break_point + 1 ELSE end0
    IN  [chunk |-> Strip(chunk), raw |-> chunk, end |-> end, cut |-> cut,
         start |-> NextStart(end, ov)]

LoopBody(t, size, ov, st) ==
    LET end0 == st + size
        chunk0 == Slice(t, st, end0)
        last_period == rfind(chunk0, ".")
        last_newline == rfind(chunk0, "\n")
        break_point == Max2(last_period, last_newline)
        cut == end0 < Len(t) /\ break_point > st + (size \div 2)
        chunk == IF cut THEN Slice(t, st, break_point + 1) ELSE chunk0
        end == IF cut THEN break_point + 1 ELSE end0
    IN  [chunk |-> Strip(chunk), raw |-> chunk, end |-> end, cut |-> cut,
         start |-> NextStart(end, ov)]

\* chunk_text(text, chunk_size, overlap) as a function, from start = st on.
\* Defined where the loop ends (it ends whenever overlap <= chunk_size // 2).
RECURSIVE ChunkLoop(_, _, _, _)
ChunkLoop(t, size, ov, st) ==
    IF st >= Len(t) THEN << >>
    ELSE LET b == LoopBody(t, size, ov, st)
         IN  <<b.chunk>> \o ChunkLoop(t, size, ov, b.start)

chunk_text(t, size, ov) == NonEmpty(ChunkLoop(t, size, ov, 0))

\* Enumerated texts: an ordinary character with the two break characters (the
\* newline is whitespace too), and an ordinary character with the blank.
BreakAlphabet == {"a", ".", "\n"}

BlankAlphabet == {"a", " "}

RECURSIVE Texts(_, _)
Texts(n, A) == IF n = 0 THEN {<< >>}
               ELSE LET S == Texts(n - 1, A)
                    IN  S \cup {Append(s, c) : s \in {x \in S : Len(x) = n - 1}, c \in A}

InputTexts == Texts(MaxLen, BreakAlphabet) \cup Texts(MaxLen, BlankAlphabet)

\* Longer texts with an overlap just below chunk_size: the inputs on which a
\* sentence cut sends start below 0, where text[start:end] counts from the end.
WrapTexts == {t \in Texts(WrapLen, {"a", "."}) : Len(t) = WrapLen}

\* Texts of one or two sentence ends, a few characters longer than chunk_size
\* and walked in steps of two: the inputs on which a sentence cut is taken at
\* a cursor other than 0.
SlideTexts == {[i \in 1..SlideLen |-> IF i \in {p, q} THEN "." ELSE "a"] :
                   p, q \in 1..SlideLen}

\* "Sentence one. Sentence two. Sentence three."
Sentences == <<"S","e","n","t","e","n","c","e"," ","o","n","e","."," ",
               "S","e","n","t","e","n","c","e"," ","t","w","o","."," ",
               "S","e","n","t","e","n","c","e"," ","t","h","r","e","e",".">>

Scenario == [text |-> Sentences, chunk_size |-> 20, overlap |-> 5]

ChunkEntry ==
    /\ \/ /\ text \in InputTexts
          /\ chunk_size \in 1..MaxChunk
          /\ overlap \in 0..MaxOverlap
       \/ /\ text \in WrapTexts
          /\ chunk_size = WrapLen - 1
          /\ overlap \in {WrapLen - 3, WrapLen - 2}
       \/ /\ text \in SlideTexts
          /\ chunk_size = SlideLen - 4
          /\ overlap = SlideLen - 6
       \/ /\ text = Scenario.text
          /\ chunk_size = Scenario.chunk_size
          /\ overlap = Scenario.overlap
    /\ start = 0
    /\ chunks = << >>
    /\ windows = << >>
    /\ result = << >>
    /\ cpc = "loop"

\* while start < len(text): ... one iteration, through the trailing break.
ChunkStep ==
    /\ cpc = "loop"
    /\ start < Len(text)
    /\ Len(chunks) < MaxIter
    /\ LET b == LoopBody(text, chunk_size, overlap, start)
       IN  /\ chunks' = Append(chunks, b.chunk)
           /\ windows' = Append(windows, [s |-> start, e |-> b.end, cut |-> b.cut])
           /\ start' = b.start
           /\ cpc' = IF b.start >= Len(text) THEN "ret" ELSE "loop"
    /\ UNCHANGED <<text, chunk_size, overlap, result, sys_vars>>

\* The while condition is false on entry (the text is empty).
ChunkExit ==
    /\ cpc = "loop"
    /\ start >= Len(text)
    /\ cpc' = "ret"
    /\ UNCHANGED <<text, chunk_size, overlap, start, chunks, result, windows, sys_vars>>

\* return [chunk for chunk in chunks if chunk]
ChunkReturn ==
    /\ cpc = "ret"
    /\ result' = NonEmpty(chunks)
    /\ cpc' = "done"
    /\ UNCHANGED <<text, chunk_size, overlap, start, chunks, windows, sys_vars>>


\* ============================================================ the service
\* ------------------------------------------------------------------ bounds
MaxUploads == 2    \* upload_pdf requests that may be in flight together
Unit == 2          \* the fixed-point value of 1.0 in distances and scores
PreviewSpan == 4   \* how far below and above the preview limit the texts' lengths go

\* -------------------------------------------------------- program constants
PREVIEW_LEN == 200
N_RESULTS_DEFAULT == 5

Requests == 1..MaxUploads

\* str.lower() on the letters the file names use.
LowerChar(c) == CASE c = "A" -> "a" [] c = "B" -> "b" [] c = "D" -> "d"
                  [] c = "F" -> "f" [] c = "P" -> "p" [] c = "T" -> "t"
                  [] c = "X" -> "x" [] OTHER -> c

Lower(s) == [i \in 1..Len(s) |-> LowerChar(s[i])]

\* s.endswith(suf)
EndsWith(s, suf) == /\ Len(s) >= Len(suf)
                    /\ SubSeq(s, Len(s) - Len(suf) + 1, Len(s)) = suf

\* file.filename.lower().endswith('.pdf')
IsPdfName(f) == EndsWith(Lower(f), <<".", "p", "d", "f">>)

\* The files a client may upload, by name.
FileNames == {<<"a", ".", "p", "d", "f">>, <<"B", ".", "P", "D", "F">>,
              <<"e", ".", "p", "d", "f">>, <<"c", ".", "t", "x", "t">>}

\* str(uuid.uuid4()): the k-th identifier generated; no two calls agree.
Uuid(k) == "uuid" \o ToString(k)

\* A text longer than a default chunk: a sentence ends every 50 characters, a
\* blank comes every 7.
Prose(n) == [i \in 1..n |-> IF i % 50 = 0 THEN "." ELSE IF i % 7 = 0 THEN " " ELSE "a"]

\* What the converter makes of each file when it succeeds: the text of a long
\* document, one short sentence, and nothing at all (a PDF without text).
Converted(f) == CASE f = <<"a", ".", "p", "d", "f">> -> Prose(DEFAULT_CHUNK_SIZE + 100)
                  [] f = <<"B", ".", "P", "D", "F">> -> <<"H", "i", ".">>
                  [] OTHER -> << >>

\* embedding_model.encode: one vector per text, the same text always to the
\* same vector.  A vector is abstracted to a direction 0..2*Unit.
Count(t, c) == Cardinality({i \in 1..Len(t) : t[i] = c})

Embed(t) == (Len(t) + Count(t, ".")) % (2 * Unit + 1)

Encode(ts) == [i \in 1..Len(ts) |-> Embed(ts[i])]

\* f"{doc_id}_chunk_{i}"
ChunkId_NoPrefix(d, i) == "chunk_" \o ToString(i)

ChunkId(d, i) == d \o "_chunk_" \o ToString(i)

\* chunk_ids = [f"{doc_id}_chunk_{i}" for i in range(len(chunks))]
ChunkIds(d, cs) == [k \in 1..Len(cs) |-> ChunkId(d, k - 1)]

\* chunk[:200] + "..." if len(chunk) > 200 else chunk
Preview_AtLimit(chunk) == IF Len(chunk) >= PREVIEW_LEN
                          THEN Slice(chunk, 0, PREVIEW_LEN) \o <<".", ".", ".">>
                          ELSE chunk

Preview(chunk) == IF Len(chunk) > PREVIEW_LEN
                  THEN Slice(chunk, 0, PREVIEW_LEN) \o <<".", ".", ".">>
                  ELSE chunk

Metadatas_IndexFromOne(d, f, cs) ==
    [k \in 1..Len(cs) |-> [document_id |-> d, filename |-> f,
                           chunk_index |-> k, chunk_text |-> Preview(cs[k])]]

Metadatas(d, f, cs) ==
    [k \in 1..Len(cs) |-> [document_id |-> d, filename |-> f,
                           chunk_index |-> k - 1, chunk_text |-> Preview(cs[k])]]

\* The records collection.add appends, in the order given.
Records(ids, embs, docs, metas) ==
    [k \in 1..Len(ids) |-> [id |-> ids[k], embedding |-> embs[k],
                            document |-> docs[k], metadata |-> metas[k]]]

StoreIds(coll) == {coll[k].id : k \in 1..Len(coll)}

\* collection.add refuses list lengths that differ and ids it already holds.
AddAccepts(coll, ids, embs, docs, metas) ==
    /\ Len(ids) = Len(embs) /\ Len(ids) = Len(docs) /\ Len(ids) = Len(metas)
    /\ \A i, j \in 1..Len(ids) : ids[i] = ids[j] => i = j
    /\ \A i \in 1..Len(ids) : ids[i] \notin StoreIds(coll)

\* The store once collection.add has returned: the new records follow the old.
StoreAfterAdd_Overwrite(coll, recs) == recs

StoreAfterAdd(coll, recs) == coll \o recs

\* document_store[doc_id] = {...}, reached only when collection.add returned.
RegistryAfterAdd_Reset(store, added, d, f, md, n) ==
    IF added
    THEN [x \in {d} |-> [filename |-> f, markdown_content |-> md,
                         chunk_count |-> n, doc_id |-> d]]
    ELSE store

RegistryAfterAdd_Eager(store, added, d, f, md, n) ==
    [x \in DOMAIN store \cup {d} |->
        IF x = d THEN [filename |-> f, markdown_content |-> md,
                       chunk_count |-> n, doc_id |-> d]
        ELSE store[x]]

RegistryAfterAdd(store, added, d, f, md, n) ==
    IF added
    THEN [x \in DOMAIN store \cup {d} |->
            IF x = d THEN [filename |-> f, markdown_content |-> md,
                           chunk_count |-> n, doc_id |-> d]
            ELSE store[x]]
    ELSE store

NoResponse == [status |-> 0]

Idle == [pc |-> "idle", filename |-> << >>, doc_id |-> "", markdown_content |-> << >>,
         chunks |-> << >>, embeddings |-> << >>, response |-> NoResponse]

\* What is left of a request once its handler has returned or raised.
Finished(resp) == [Idle EXCEPT !.pc = "done", !.response = resp]

NoQuery == [status |-> 0]

SysInit ==
    /\ document_store = << >>
    /\ collection = << >>
    /\ temp_files = {}
    /\ uuid_count = 0
    /\ up = [r \in Requests |-> Idle]
    /\ last_query = NoQuery

\* The chunker's variables while the service runs, and the service's while
\* the chunker runs.
ChunkIdle ==
    /\ text = << >> /\ chunk_size = DEFAULT_CHUNK_SIZE /\ overlap = DEFAULT_OVERLAP
    /\ start = 0 /\ chunks = << >> /\ windows = << >> /\ result = << >>
    /\ cpc = "done"

\* ------------------------------------------------------------- upload_pdf
\* The handler up to await file.read(): the file-name check, the fresh
\* document id and the temporary file (delete=False).
UploadStart(r, f) ==
    /\ up[r].pc = "idle"
    /\ IF ~IsPdfName(f)
       THEN /\ up' = [up EXCEPT ![r] = Finished([status |-> 400])]
            /\ UNCHANGED <<uuid_count, temp_files>>
       ELSE /\ uuid_count' = uuid_count + 1
            /\ temp_files' = temp_files \cup {r}
            /\ up' = [up EXCEPT ![r] = [Idle EXCEPT !.pc = "read", !.filename = f,
                                            !.doc_id = Uuid(uuid_count + 1)]]
    /\ UNCHANGED <<document_store, collection, last_query, chunk_vars>>

\* content = await file.read(); temp_file.write(content).  A failure here is
\* raised before the try/finally is entered.
UploadRead(r, ok) ==
    /\ up[r].pc = "read"
    /\ up' = [up EXCEPT ![r] = IF ok THEN [@ EXCEPT !.pc = "convert"]
                                ELSE Finished([status |-> 500, detail |-> "read"])]
    /\ UNCHANGED <<document_store, collection, temp_files, uuid_count, last_query,
                   chunk_vars>>

\* rag_system.convert_pdf_to_markdown(temp_file_path); on failure the
\* HTTPException passes through the finally clause, which unlinks the file.
UploadConvert(r, ok) ==
    /\ up[r].pc = "convert"
    /\ IF ok
       THEN /\ up' = [up EXCEPT ![r] = [@ EXCEPT !.pc = "embed",
                                  !.markdown_content = Converted(up[r].filename)]]
            /\ UNCHANGED temp_files
       ELSE /\ up' = [up EXCEPT ![r] = Finished([status |-> 500, detail |-> "convert"])]
            /\ temp_files' = temp_files \ {r}
    /\ UNCHANGED <<document_store, collection, uuid_count, last_query, chunk_vars>>

\* add_document_to_store through embedding_model.encode(chunks).
UploadEmbed(r, ok) ==
    /\ up[r].pc = "embed"
    /\ IF ok
       THEN /\ LET cs == chunk_text(up[r].markdown_content, DEFAULT_CHUNK_SIZE,
                                    DEFAULT_OVERLAP)
               IN  up' = [up EXCEPT ![r] = [@ EXCEPT !.pc = "add", !.chunks = cs,
                                                     !.embeddings = Encode(cs)]]
            /\ UNCHANGED temp_files
       ELSE /\ up' = [up EXCEPT ![r] = Finished([status |-> 500, detail |-> "store"])]
            /\ temp_files' = temp_files \ {r}
    /\ UNCHANGED <<document_store, collection, uuid_count, last_query, chunk_vars>>

\* collection.add(...), the registry entry, the response and the finally
\* clause.  ok is whether the vector store carries the call out.
UploadAdd(r, ok) ==
    /\ up[r].pc = "add"
    /\ LET u == up[r]
           ids == ChunkIds(u.doc_id, u.chunks)
           metas == Metadatas(u.doc_id, u.filename, u.chunks)
           added == ok /\ AddAccepts(collection, ids, u.embeddings, u.chunks, metas)
           reg == RegistryAfterAdd(document_store, added, u.doc_id, u.filename,
                                   u.markdown_content, Len(u.chunks))
       IN  /\ collection' = IF added
                            THEN StoreAfterAdd(collection,
                                     Records(ids, u.embeddings, u.chunks, metas))
                            ELSE collection
           /\ document_store' = reg
           /\ up' = [up EXCEPT ![r] =
                        IF added
                        THEN Finished([status |-> 200, document_id |-> u.doc_id,
                                       filename |-> u.filename,
                                       chunk_count |-> reg[u.doc_id].chunk_count])
                        ELSE Finished([status |-> 500, detail |-> "store"])]
    /\ temp_files' = temp_files \ {r}
    /\ UNCHANGED <<uuid_count, last_query, chunk_vars>>

Upload(r) ==
    \/ \E f \in FileNames : UploadStart(r, f)
    \/ \E ok \in BOOLEAN : UploadRead(r, ok)
    \/ \E ok \in BOOLEAN : UploadConvert(r, ok)
    \/ \E ok \in BOOLEAN : UploadEmbed(r, ok)
    \/ \E ok \in BOOLEAN : UploadAdd(r, ok)

Init == SysInit /\ ChunkIdle

Next == \E r \in Requests : Upload(r)

Spec == Init /\ [][Next]_vars

InFlight(r) == up[r].pc \in {"read", "convert", "embed", "add"}

Succeeded(r) == up[r].pc = "done" /\ up[r].response.status = 200

Failed(r) == up[r].pc = "done" /\ up[r].response.status = 500

\* -------------------------------------------------------- query_documents
Abs(x) == IF x < 0 THEN 0 - x ELSE x

\* The store's cosine distance between two vectors, 0..2*Unit for 0.0..2.0.
Distance(e1, e2) == Abs(e1 - e2)

\* Record i comes before record j in the store's answer: nearer first, and of
\* two equally near the one stored first.
Before(coll, e, i, j) ==
    \/ Distance(coll[i].embedding, e) < Distance(coll[j].embedding, e)
    \/ Distance(coll[i].embedding, e) = Distance(coll[j].embedding, e) /\ i < j

\* The index of the record at place k of the store's answer.
Ranked(coll, e, k) ==
    CHOOSE i \in 1..Len(coll) :
        Cardinality({j \in 1..Len(coll) : Before(coll, e, j, i)}) = k - 1

\* collection.query(query_embeddings, n_results, include=[...]): the n nearest
\* records, or all of them when there are fewer.
QueryStore(coll, e, n) ==
    LET m == IF n < Len(coll) THEN n ELSE Len(coll)
    IN  [documents |-> [k \in 1..m |-> coll[Ranked(coll, e, k)].document],
         metadatas |-> [k \in 1..m |-> coll[Ranked(coll, e, k)].metadata],
         distances |-> [k \in 1..m |-> Distance(coll[Ranked(coll, e, k)].embedding, e)]]

\* collection.query reads the store and leaves it as it is.
StoreAfterQuery_Upsert(coll, q, e) ==
    Append(coll, [id |-> "query", embedding |-> e, document |-> q,
                  metadata |-> [document_id |-> "", filename |-> << >>,
                                chunk_index |-> 0, chunk_text |-> q]])

StoreAfterQuery(coll, q, e) == coll

\* The loop that formats the results.
FormatResults_NoInvert(res) ==
    [i \in 1..Len(res.documents) |->
        [content |-> res.documents[i], metadata |-> res.metadatas[i],
         similarity_score |-> res.distances[i]]]

FormatResults(res) ==
    [i \in 1..Len(res.documents) |->
        [content |-> res.documents[i], metadata |-> res.metadatas[i],
         similarity_score |-> Unit - res.distances[i]]]

\* "total_results": len(formatted_results)
TotalResults_Requested(formatted, n) == n

TotalResults(formatted, n) == Len(formatted)

Queries == {<<"H", "i", ".">>, <<"a">>, <<" ">>}

NResults == {1, N_RESULTS_DEFAULT}

\* query_documents(query, n_results).  ext is what the embedder and the store
\* do with their calls: both carry them out, or one of them fails, which is
\* raised as a 500.  The call is recorded with what the store held and, when
\* answered, the places of the records the store returned and their distances.
QueryDocuments(q, n, ext) ==
    /\ LET e == Embed(q)
           raw == QueryStore(collection, e, n)
           formatted == FormatResults(raw)
           call == [query |-> q, n |-> n, docs |-> DOMAIN document_store,
                    store_len |-> Len(collection)]
       IN  /\ last_query' =
                IF ext # "none" THEN [call |-> call, status |-> 500, failed |-> ext]
                ELSE [call |-> call, status |-> 200, failed |-> ext,
                      order |-> [k \in 1..Len(raw.documents) |-> Ranked(collection, e, k)],
                      distances |-> raw.distances,
                      results |-> formatted,
                      total_results |-> TotalResults(formatted, n)]
           /\ collection' = IF ext = "none" THEN StoreAfterQuery(collection, q, e)
                            ELSE collection
    /\ UNCHANGED <<document_store, temp_files, uuid_count, up, chunk_vars>>

\* The /query endpoint refuses a blank query before query_documents is called.
QueryRejected(q) ==
    /\ Strip(q) = << >>
    /\ last_query' = [call |-> [query |-> q], status |-> 400, failed |-> "none"]
    /\ UNCHANGED <<document_store, collection, temp_files, uuid_count, up, chunk_vars>>

Query ==
    \/ \E q \in Queries, n \in NResults, ext \in {"none", "encode", "query"} :
           QueryDocuments(q, n, ext)
    \/ \E q \in Queries : QueryRejected(q)

\* Uploads one after another, with queries between them.
NextQuery ==
    \/ \E r \in Requests : (\A r0 \in 1..(r - 1) : up[r0].pc = "done") /\ Upload(r)
    \/ Query

SpecQuery == Init /\ [][NextQuery]_vars

\* --------------------------------------------------------- list_documents
\* GET /documents: one entry per item of document_store, with the item's key
\* and the filename and chunk_count of its value.  The handler reads the
\* registry and writes nothing; the order of the list is left out.
list_documents(store) ==
    {[doc_id |-> d, filename |-> store[d].filename,
      chunk_count |-> store[d].chunk_count] : d \in DOMAIN store}

\* -------------------------------------------- add_document_to_store alone
\* add_document_to_store(doc_id, filename, markdown_content) called on its
\* own with a fresh doc_id, from chunk_text to the registry entry; ok is
\* whether the embedder and the store carry their calls out.  It returns
\* (recorded as 200 with what it registered) or raises the 500.
AddDocument(r, f, md, ok) ==
    /\ up[r].pc = "idle"
    /\ LET d == Uuid(uuid_count + 1)
           cs == chunk_text(md, DEFAULT_CHUNK_SIZE, DEFAULT_OVERLAP)
           embs == Encode(cs)
           ids == ChunkIds(d, cs)
           metas == Metadatas(d, f, cs)
           added == ok /\ AddAccepts(collection, ids, embs, cs, metas)
           reg == RegistryAfterAdd(document_store, added, d, f, md, Len(cs))
       IN  /\ collection' = IF added
                            THEN StoreAfterAdd(collection, Records(ids, embs, cs, metas))
                            ELSE collection
           /\ document_store' = reg
           /\ up' = [up EXCEPT ![r] =
                        IF added
                        THEN Finished([status |-> 200, document_id |-> d,
                                       filename |-> f,
                                       chunk_count |-> reg[d].chunk_count])
                        ELSE Finished([status |-> 500, detail |-> "store"])]
    /\ uuid_count' = uuid_count + 1
    /\ UNCHANGED <<temp_files, last_query, chunk_vars>>

\* Texts whose length is around the limit of the metadata preview.
PreviewLens == (PREVIEW_LEN - PreviewSpan)..(PREVIEW_LEN + PreviewSpan)

NextAdd ==
    \E r \in Requests, n \in PreviewLens, ok \in BOOLEAN :
        AddDocument(r, <<"a", ".", "p", "d", "f">>, Prose(n), ok)

SpecAdd == Init /\ [][NextAdd]_vars

\* ----------------------------------------------------------------- restart
\* setup_vector_store in a new process: a PersistentClient on ./chroma_db,
\* whose get_collection("pdf_documents") finds what earlier processes wrote.
StoreAfterRestart_InMemory(coll) == << >>

StoreAfterRestart(coll) == coll

\* The process ends and a new one starts.  The module is loaded anew, so
\* document_store = {}; the vector store is opened from disk; a request that
\* was in flight gets no response and its finally clause does not run, so its
\* temporary file stays.  (A shutdown that lets the requests finish first is
\* this step taken when none is in flight.)
Restart ==
    /\ document_store' = << >>
    /\ collection' = StoreAfterRestart(collection)
    /\ up' = [r \in Requests |-> IF InFlight(r) THEN Finished(NoResponse) ELSE up[r]]
    /\ UNCHANGED <<temp_files, uuid_count, last_query, chunk_vars>>

\* Uploads one after another, restarts, and queries as the /query endpoint
\* makes them (n_results left at its default) with the embedder and the store
\* carrying their calls out.
NextRestart ==
    \/ \E r \in Requests : (\A r0 \in 1..(r - 1) : up[r0].pc = "done") /\ Upload(r)
    \/ \E q \in Queries : Strip(q) # << >> /\ QueryDocuments(q, N_RESULTS_DEFAULT, "none")
    \/ Restart

SpecRestart == Init /\ [][NextRestart]_vars

\* chunk_text on its own, the service at rest.
ChunkNext == ChunkStep \/ ChunkExit \/ ChunkReturn

ChunkInit == ChunkEntry /\ SysInit

SpecChunk == ChunkInit /\ [][ChunkNext]_vars

\* ------------------------------------------------- chunk_text: the claims
SetMax(S) == CHOOSE x \in S : \A y \in S : y <= x

SetMin(S) == CHOOSE x \in S : \A y \in S : x <= y

\* The positions of text that the k-th iteration's chunk text[start:end] took.
WindowPos(k) == SlicePos(Len(text), windows[k].s, windows[k].e)

\* The positions of the k-th window left after strip().
KeptPos(k) == LET P == {p \in WindowPos(k) : ~IsSpace(text[p])}
              IN  IF P = {} THEN {} ELSE SetMin(P) .. SetMax(P)

HasInk(t) == \E p \in 1..Len(t) : ~IsSpace(t[p])

\* C1 (as claimed): a text shorter than chunk_size that holds a non-blank
\* character comes back as exactly one chunk, the stripped text.
C1_ShortTextOneChunk ==
    (cpc = "done" /\ Len(text) < chunk_size /\ HasInk(text))
        => result = <<Strip(text)>>

\* C2 (as claimed): every iteration of the loop moves start forward by at
\* least one character, whatever chunk_size and overlap are.
C2_CursorAdvances == [][ChunkStep => start' >= start + 1]_vars

C4_ScenarioThreeChunks ==
    (cpc = "done" /\ text = Scenario.text /\ chunk_size = Scenario.chunk_size
        /\ overlap = Scenario.overlap)
        => (Len(result) = 3 /\ \A i \in 1..Len(result) : result[i] # << >>)

\* The 0-based text position of the last '.' or newline inside the k-th
\* iteration's candidate window [s, s + chunk_size), or -1.
LastBreak(k) ==
    LET P == {p \in windows[k].s .. (windows[k].s + chunk_size - 1) :
                p >= 0 /\ p < Len(text) /\ text[p + 1] \in {".", "\n"}}
    IN  IF P = {} THEN -1 ELSE SetMax(P)

\* C14 (as claimed): in every iteration whose candidate window
\* [cursor, cursor + chunk_size) ends before the end of the text, at whatever
\* cursor: when the last '.' or newline of the window is at text position p
\* with p > cursor + chunk_size/2, the chunk is text[cursor..p] (trimmed) and
\* the next cursor is p + 1 - overlap; otherwise the chunk is the full window
\* (trimmed) and the next cursor is cursor + chunk_size - overlap.
C14_SentenceCut ==
    \A k \in 1..Len(windows) :
        LET s == windows[k].s
            p == LastBreak(k)
            next == IF k < Len(windows) THEN windows[k + 1].s ELSE start
        IN  (overlap < chunk_size /\ s >= 0 /\ s + chunk_size < Len(text)) =>
                IF p # -1 /\ 2 * p > 2 * s + chunk_size
                THEN /\ chunks[k] = Strip(SubSeq(text, s + 1, p + 1))
                     /\ next = p + 1 - overlap
                ELSE /\ chunks[k] = Strip(SubSeq(text, s + 1, s + chunk_size))
                     /\ next = s + chunk_size - overlap

\* The 1-based positions at which c occurs in t.
Occurrences(c, t) ==
    {i \in 1..(Len(t) - Len(c) + 1) : SubSeq(t, i, i + Len(c) - 1) = c}

\* C15 (as claimed): for 0 <= overlap < chunk_size every returned chunk is
\* non-empty, begins and ends with a character that is not whitespace, occurs
\* in the text as a contiguous substring and has at most chunk_size
\* characters; and the chunks come in the order of the positions at which
\* they start in the text.
C15_ChunksWellFormed ==
    (cpc = "done" /\ overlap < chunk_size) =>
        /\ \A i \in 1..Len(result) :
              /\ result[i] # << >>
              /\ ~IsSpace(result[i][1])
              /\ ~IsSpace(result[i][Len(result[i])])
              /\ Occurrences(result[i], text) # {}
              /\ Len(result[i]) <= chunk_size
        /\ \A i, j \in 1..Len(windows) :
              (i < j /\ KeptPos(i) # {} /\ KeptPos(j) # {})
                  => SetMin(KeptPos(i)) <= SetMin(KeptPos(j))

\* C17: for chunk_size >= 1 and 0 <= overlap <= chunk_size // 2 the cursor is
\* greater after every iteration than before it, on a hard cut and on a
\* sentence cut alike, so the loop has made at most len(text) iterations
\* whenever it is looked at, and has ended once it has made that many (the
\* cap on the iterations followed is never what stops it).
C17_CursorClimbs ==
    (chunk_size >= 1 /\ overlap >= 0 /\ overlap <= chunk_size \div 2) =>
        /\ \A k \in 1..Len(windows) :
              /\ windows[k].s >= 0
              /\ (IF k < Len(windows) THEN windows[k + 1].s ELSE start) > windows[k].s
        /\ Len(windows) <= Len(text)
        /\ Len(windows) = Len(text) => (cpc \in {"ret", "done"} \/ Len(text) = 0)
        /\ (cpc = "loop" /\ start < Len(text)) => Len(windows) < MaxIter

\* A finished run with 0 < overlap <= chunk_size // 2 that made a sentence
\* cut and, after it, a hard cut.
C17_Witness ==
    /\ cpc = "done"
    /\ 0 < overlap /\ overlap <= chunk_size \div 2
    /\ \E i, j \in 1..Len(windows) :
          /\ i < j
          /\ windows[i].cut
          /\ ~windows[j].cut /\ windows[j].e < Len(text)

\* ---------------------------------------------------- uploads: the claims
\* The records of the store that belong to document d, in store order.
RecordsOf(d) == SelectSeq(collection, LAMBDA rec : rec.metadata.document_id = d)

\* C5: a step that ends an upload in failure (conversion, embedding or the
\* store's add) leaves the Document Registry as it was; every registry entry
\* belongs to an upload whose add succeeded, never to one in flight; and a
\* finished request takes no further step (nothing is retried).
C5_FailureLeavesRegistry ==
    /\ [](\A d \in DOMAIN document_store :
            /\ \E r \in Requests : Succeeded(r) /\ up[r].response.document_id = d
            /\ \A r \in Requests : InFlight(r) => up[r].doc_id # d
            /\ Len(RecordsOf(d)) = document_store[d].chunk_count)
    /\ [][\A r \in Requests :
            /\ (~Failed(r) /\ Failed(r)') => document_store' = document_store
            /\ up[r].pc = "done" => up'[r] = up[r]]_vars

\* An upload has failed in add_document_to_store while another upload's entry
\* is in the registry.
C5_Witness ==
    /\ \E r \in Requests : Failed(r) /\ up[r].response.detail = "store"
    /\ document_store # << >>

\* The documents whose chunk ids exist: the registered ones, and those whose
\* upload has chunked its text and not yet finished.
Chunked == {[d |-> x, n |-> document_store[x].chunk_count] : x \in DOMAIN document_store}
           \cup {[d |-> up[r].doc_id, n |-> Len(up[r].chunks)] :
                    r \in {q \in Requests : up[q].pc = "add"}}

\* C6: chunk ids are unique: two derived ids are equal only for the same
\* document and the same index, and no two records of the store share an id.
C6_ChunkIdsUnique ==
    /\ \A a, b \in Chunked : \A i \in 0..(a.n - 1), j \in 0..(b.n - 1) :
            ChunkId(a.d, i) = ChunkId(b.d, j) => (a.d = b.d /\ i = j)
    /\ \A k1, k2 \in 1..Len(collection) :
            collection[k1].id = collection[k2].id => k1 = k2
    /\ \A k \in 1..Len(collection) :
            collection[k].id = ChunkId(collection[k].metadata.document_id,
                                       collection[k].metadata.chunk_index)

\* Two registered documents of two or more chunks each.
C6_Witness ==
    \E d1, d2 \in DOMAIN document_store :
        /\ d1 # d2
        /\ document_store[d1].chunk_count >= 2
        /\ document_store[d2].chunk_count >= 2

\* C7: uploads that interleave never collide on chunk ids (the store accepts
\* every add that reaches it), and once two uploads have both succeeded their
\* ids differ, the registry holds both entries with each upload's own file
\* name and chunk count, and the store holds each document's chunks, all of
\* them, in order, under that document's ids.
C7_ConcurrentUploads ==
    /\ \A r \in Requests : up[r].pc = "add" =>
            AddAccepts(collection, ChunkIds(up[r].doc_id, up[r].chunks),
                       up[r].embeddings, up[r].chunks,
                       Metadatas(up[r].doc_id, up[r].filename, up[r].chunks))
    /\ \A r1, r2 \in Requests : (r1 # r2 /\ Succeeded(r1) /\ Succeeded(r2)) =>
            up[r1].response.document_id # up[r2].response.document_id
    /\ \A r \in Requests : Succeeded(r) =>
            LET d == up[r].response.document_id
                cs == chunk_text(Converted(up[r].response.filename),
                                 DEFAULT_CHUNK_SIZE, DEFAULT_OVERLAP)
            IN  /\ d \in DOMAIN document_store
                /\ document_store[d].filename = up[r].response.filename
                /\ document_store[d].chunk_count = up[r].response.chunk_count
                /\ document_store[d].chunk_count = Len(cs)
                /\ Len(RecordsOf(d)) = Len(cs)
                /\ \A i \in 1..Len(cs) :
                      /\ RecordsOf(d)[i].id = ChunkId(d, i - 1)
                      /\ RecordsOf(d)[i].document = cs[i]
                      /\ RecordsOf(d)[i].metadata.filename = up[r].response.filename

\* Two uploads of different files have both succeeded, and the one that drew
\* its document id second reached the store first: they overlapped.
C7_Witness ==
    \E r1, r2 \in Requests :
        /\ Succeeded(r1) /\ Succeeded(r2)
        /\ up[r1].response.document_id = Uuid(1)
        /\ up[r2].response.document_id = Uuid(2)
        /\ up[r1].response.filename # up[r2].response.filename
        /\ up[r1].response.chunk_count >= 2
        /\ up[r2].response.chunk_count >= 1
        /\ collection[1].metadata.document_id = Uuid(2)

\* C11: within one process lifetime the Document Registry only grows: a step
\* keeps every registered id with the same filename, full text and chunk
\* count; and list_documents has exactly one entry per registered document,
\* carrying the filename and chunk_count of its entry, which are those the
\* successful upload was answered with.
C11_RegistryOnlyGrows ==
    /\ [][\A d \in DOMAIN document_store :
            /\ d \in DOMAIN document_store'
            /\ document_store'[d] = document_store[d]]_vars
    /\ [](LET listed == list_documents(document_store)
          IN  /\ {e.doc_id : e \in listed} = DOMAIN document_store
              /\ Cardinality(listed) = Cardinality(DOMAIN document_store)
              /\ \A e \in listed :
                    /\ e.filename = document_store[e.doc_id].filename
                    /\ e.chunk_count = document_store[e.doc_id].chunk_count
              /\ \A r \in Requests : Succeeded(r) =>
                    [doc_id |-> up[r].response.document_id,
                     filename |-> up[r].response.filename,
                     chunk_count |-> up[r].response.chunk_count] \in listed
              /\ \A e \in listed : \E r \in Requests :
                    Succeeded(r) /\ up[r].response.document_id = e.doc_id)

\* The registry holds the entry of an earlier upload after a later upload of
\* another file has been registered too.
C11_Witness ==
    /\ Cardinality(list_documents(document_store)) = 2
    /\ \E r1, r2 \in Requests :
          /\ Succeeded(r1) /\ Succeeded(r2)
          /\ up[r1].response.filename # up[r2].response.filename
          /\ up[r1].response.chunk_count # up[r2].response.chunk_count

\* C13: the chunk_text preview in the metadata of every record that
\* add_document_to_store wrote is the chunk itself when the chunk has at most
\* 200 characters, and otherwise the chunk's first 200 characters followed by
\* the three characters "...".
C13_PreviewOfChunk ==
    \A k \in 1..Len(collection) :
        LET c == collection[k].document
            p == collection[k].metadata.chunk_text
        IN  /\ Len(c) <= PREVIEW_LEN => p = c
            /\ Len(c) > PREVIEW_LEN =>
                  /\ Len(p) = PREVIEW_LEN + 3
                  /\ \A i \in 1..PREVIEW_LEN : p[i] = c[i]
                  /\ \A i \in (PREVIEW_LEN + 1)..(PREVIEW_LEN + 3) : p[i] = "."

\* The store holds a chunk of exactly 200 characters, kept whole, and one of
\* 201, cut.
C13_Witness ==
    /\ \E k \in 1..Len(collection) :
          /\ Len(collection[k].document) = PREVIEW_LEN
          /\ Len(collection[k].metadata.chunk_text) = PREVIEW_LEN
    /\ \E k \in 1..Len(collection) :
          /\ Len(collection[k].document) = PREVIEW_LEN + 1
          /\ Len(collection[k].metadata.chunk_text) = PREVIEW_LEN + 3

\* The places in the store of the records whose metadata names document d.
PlacesOf(d) == {k \in 1..Len(collection) : collection[k].metadata.document_id = d}

\* C16: in one process, from an empty store, each registry entry's
\* chunk_count is the number of store records whose document_id is that
\* document, and no record belongs to an unregistered document; an upload
\* answered with success and chunk_count n has in the store exactly the n
\* records with ids doc_id_chunk_0 .. doc_id_chunk_(n-1), the record with
\* chunk_index i carrying id doc_id_chunk_i and the text of the i-th chunk of
\* the document, and n is the number of chunks of the document.
C16_OneRecordPerChunk ==
    /\ \A d \in DOMAIN document_store :
          document_store[d].chunk_count = Cardinality(PlacesOf(d))
    /\ \A k \in 1..Len(collection) :
          collection[k].metadata.document_id \in DOMAIN document_store
    /\ \A r \in Requests : Succeeded(r) =>
          LET d == up[r].response.document_id
              n == up[r].response.chunk_count
              cs == chunk_text(Converted(up[r].response.filename),
                               DEFAULT_CHUNK_SIZE, DEFAULT_OVERLAP)
          IN  /\ n = Len(cs)
              /\ n = document_store[d].chunk_count
              /\ {collection[k].id : k \in PlacesOf(d)}
                    = {ChunkId(d, i) : i \in 0..(n - 1)}
              /\ Cardinality(PlacesOf(d)) = n
              /\ \A k \in PlacesOf(d) :
                    LET i == collection[k].metadata.chunk_index
                    IN  /\ i \in 0..(n - 1)
                        /\ collection[k].id = ChunkId(d, i)
                        /\ collection[k].document = cs[i + 1]
                        /\ \A k2 \in PlacesOf(d) :
                              collection[k2].metadata.chunk_index < i => k2 < k

\* Two uploads have been answered with success, one of a document of one
\* chunk and one of a document of several, and the store holds the records of
\* both and no other.
C16_Witness ==
    /\ \E r1, r2 \in Requests :
          /\ Succeeded(r1) /\ up[r1].response.chunk_count = 1
          /\ Succeeded(r2) /\ up[r2].response.chunk_count >= 2
          /\ Len(collection) = 1 + up[r2].response.chunk_count
    /\ Cardinality(DOMAIN document_store) = 2

\* C18 (as claimed): once an upload_pdf request has finished, with whatever
\* outcome (success, a failed conversion, a failed embedding or add, a failed
\* read or write of the uploaded content), the temporary file it created is
\* gone.
C18_TempFileRemoved ==
    \A r \in Requests : up[r].pc = "done" => r \notin temp_files

\* ---------------------------------------------------- queries: the claims
Answered == last_query.status = 200

\* C8: the results of a query come in the order of the store's answer, the
\* i-th carrying the text and metadata of the record the store returned i-th
\* (the store only appends, so its places stay) and the score 1 - (i-th distance);
\* the store answers nearest first, so the scores never increase down the list.
C8_RankedBySimilarity ==
    Answered =>
        /\ Len(last_query.results) = Len(last_query.order)
        /\ \A i \in 1..Len(last_query.results) :
              /\ last_query.results[i].content
                    = collection[last_query.order[i]].document
              /\ last_query.results[i].metadata
                    = collection[last_query.order[i]].metadata
              /\ last_query.results[i].similarity_score
                    = Unit - last_query.distances[i]
        /\ \A i, j \in 1..Len(last_query.results) :
              i < j => /\ last_query.distances[i] <= last_query.distances[j]
                       /\ last_query.results[i].similarity_score
                             >= last_query.results[j].similarity_score

\* A query answered with two or more results of different scores, the best of
\* them a chunk that was not stored first.
C8_Witness ==
    /\ Answered
    /\ Len(last_query.results) >= 2
    /\ last_query.results[1].similarity_score > last_query.results[2].similarity_score
    /\ last_query.results[1].content # collection[1].document

\* C9: a query made while the store is empty, the embedder and the store
\* carrying their calls out, is answered (no error) with no results and
\* total_results = 0.
C9_EmptyStoreQuery ==
    (last_query.status \in {200, 500} /\ last_query.call.store_len = 0
        /\ last_query.failed = "none")
        => /\ last_query.status = 200
           /\ last_query.results = << >>
           /\ last_query.total_results = 0

\* A query has been answered from the empty store.
C9_Witness ==
    /\ Answered
    /\ last_query.call.store_len = 0
    /\ collection = << >>
    /\ last_query.total_results = 0

\* C10: a query changes neither the Document Registry nor the store, and a
\* query answered after an answered query for the same text and count, with no
\* document ingested since, gets the same results in the same order.  (Only a
\* query writes last_query, so a step that changes it is a query.)
C10_QueryIdempotent ==
    [][last_query' # last_query =>
          /\ document_store' = document_store
          /\ collection' = collection
          /\ (/\ Answered /\ Answered'
              /\ last_query'.call.query = last_query.call.query
              /\ last_query'.call.n = last_query.call.n
              /\ last_query.call.docs = DOMAIN document_store)
             => /\ last_query'.results = last_query.results
                /\ last_query'.total_results = last_query.total_results]_vars

\* A query has been answered with two or more results and nothing has been
\* ingested since: the state in which a repeat of the call must agree with it.
C10_Witness ==
    /\ Answered
    /\ Len(last_query.results) >= 2
    /\ last_query.call.docs = DOMAIN document_store
    /\ last_query.call.store_len = Len(collection)

\* ------------------------------------------------------- restart: the claims
\* C12: a restart empties the Document Registry (list_documents returns no
\* documents) and leaves the vector store as it was: the records of every
\* upload that was answered with success stay in the store, restart or not,
\* and a query answered while the registry is empty still returns the nearest
\* of them.  As long as no registration has been lost (which is so from an
\* empty store up to the first restart) every store record's document_id is
\* in the registry; after a restart it need not be (C12_Witness).
C12_RestartLosesRegistry ==
    /\ [][Restart => /\ document_store' = << >>
                     /\ list_documents(document_store') = {}
                     /\ collection' = collection]_vars
    /\ [](/\ \A r \in Requests : Succeeded(r) =>
                Len(RecordsOf(up[r].response.document_id))
                    = up[r].response.chunk_count
          /\ (\A r \in Requests : Succeeded(r) =>
                    up[r].response.document_id \in DOMAIN document_store)
              => \A k \in 1..Len(collection) :
                    collection[k].metadata.document_id \in DOMAIN document_store
          /\ (Answered /\ last_query.call.docs = {}) =>
                last_query.total_results
                    = IF last_query.call.n < last_query.call.store_len
                      THEN last_query.call.n ELSE last_query.call.store_len)

\* After a restart that followed a successful upload the registry is empty,
\* the store still holds the upload's records, and a query has been answered
\* with one of them: a record whose document_id is not in the registry.
C12_Witness ==
    /\ document_store = << >>
    /\ list_documents(document_store) = {}
    /\ \E r \in Requests :
          /\ Succeeded(r)
          /\ up[r].response.chunk_count >= 2
          /\ Len(RecordsOf(up[r].response.document_id)) = up[r].response.chunk_count
    /\ Answered
    /\ last_query.call.docs = {}
    /\ last_query.call.store_len = Len(collection)
    /\ Len(last_query.results) >= 1
    /\ last_query.results[1].metadata.document_id \notin DOMAIN document_store

=============================================================================
